---------------------------- MODULE Spec2Model ----------------------------
(***************************************************************************)
(* Binomial and Poisson-binomial distribution helpers: Ekj (memoized       *)
(* recurrence), poissonBinomialPMF / poissonBinomialCDF, bin, binomialPMF  *)
(* / binomialCDF and findMax.                                              *)
(*                                                                         *)
(* Numbers are exact rationals (records tag/num/den); the JavaScript       *)
(* values null, undefined, NaN and +-Infinity are kept as separate tags so *)
(* that an out-of-range index or a division-like blow-up is visible.       *)
(***************************************************************************)
EXTENDS Integers, Sequences, FiniteSets, TLC

(***************************************************************************)
(* Bounds of the model.                                                    *)
(***************************************************************************)
\* largest trial count of a single (sequential) Poisson-binomial query
MaxN == 3
\* largest trial count when several queries are interleaved
MaxNConc == 2
\* largest trial count handed to findMax
MaxNFind == 4
\* largest trial count handed to binomialPMF / binomialCDF
MaxNBin == 3
\* probabilities are drawn from the grid 0/Denom, 1/Denom, ..., Denom/Denom
Denom == 4
\* the coarser grid 0/CoarseDenom .. CoarseDenom/CoarseDenom of the vectors
\* handed to findMax, and of the values of an arbitrary pmf
CoarseDenom == 2

(***************************************************************************)
(* JavaScript values.                                                      *)
(***************************************************************************)
Abs(x) == IF x < 0 THEN -x ELSE x

Sign(x) == IF x < 0 THEN -1 ELSE IF x > 0 THEN 1 ELSE 0

RECURSIVE Gcd(_, _)
Gcd(a, b) == IF b = 0 THEN a ELSE Gcd(b, a % b)

\* the rational a/b (b # 0) in lowest terms with a positive denominator
Rat(a, b) ==
    LET g == Gcd(Abs(a), Abs(b))
        s == IF b < 0 THEN -1 ELSE 1
    IN  [tag |-> "num", num |-> (s * a) \div g, den |-> (s * b) \div g]

Num(a) == [tag |-> "num", num |-> a, den |-> 1]

Null == [tag |-> "null", num |-> 0, den |-> 1]

Undefined == [tag |-> "undefined", num |-> 0, den |-> 1]

NaN == [tag |-> "nan", num |-> 0, den |-> 1]

\* +Infinity (s = 1) or -Infinity (s = -1)
Infinity(s) == [tag |-> "inf", num |-> s, den |-> 1]

\* no value: a call that has not returned, or that threw
NoValue == [tag |-> "none", num |-> 0, den |-> 1]

IsNum(x) == x.tag = "num"

\* ToNumber: null is 0, undefined is NaN
ToNumber(x) ==
    CASE x.tag = "null" -> Num(0)
      [] x.tag = "undefined" -> NaN
      [] x.tag = "none" -> NaN
      [] OTHER -> x

\* x + y on numbers
JsAdd(x0, y0) ==
    LET x == ToNumber(x0)
        y == ToNumber(y0)
    IN  CASE x.tag = "nan" \/ y.tag = "nan" -> NaN
          [] x.tag = "inf" /\ y.tag = "inf" ->
                IF x.num = y.num THEN x ELSE NaN
          [] x.tag = "inf" -> x
          [] y.tag = "inf" -> y
          [] OTHER -> Rat(x.num * y.den + y.num * x.den, x.den * y.den)

\* x * y on numbers
JsMul(x0, y0) ==
    LET x == ToNumber(x0)
        y == ToNumber(y0)
    IN  CASE x.tag = "nan" \/ y.tag = "nan" -> NaN
          [] x.tag = "inf" \/ y.tag = "inf" ->
                IF Sign(x.num) * Sign(y.num) = 0
                THEN NaN
                ELSE Infinity(Sign(x.num) * Sign(y.num))
          [] OTHER -> Rat(x.num * y.num, x.den * y.den)

\* x - y on numbers
JsSub(x, y) == JsAdd(x, JsMul(Num(-1), y))

\* x / y on numbers
JsDiv(x0, y0) ==
    LET x == ToNumber(x0)
        y == ToNumber(y0)
    IN  CASE x.tag = "nan" \/ y.tag = "nan" -> NaN
          [] x.tag = "inf" /\ y.tag = "inf" -> NaN
          [] x.tag = "inf" ->
                Infinity(x.num * (IF y.num < 0 THEN -1 ELSE 1))
          [] y.tag = "inf" -> Num(0)
          [] y.num = 0 ->
                IF x.num = 0 THEN NaN ELSE Infinity(Sign(x.num))
          [] OTHER -> Rat(x.num * y.den, x.den * y.num)

\* x < y: false as soon as one side is NaN
JsLt(x0, y0) ==
    LET x == ToNumber(x0)
        y == ToNumber(y0)
    IN  CASE x.tag = "nan" \/ y.tag = "nan" -> FALSE
          [] x.tag = "inf" /\ y.tag = "inf" -> x.num < y.num
          [] x.tag = "inf" -> x.num < 0
          [] y.tag = "inf" -> y.num > 0
          [] OTHER -> x.num * y.den < y.num * x.den

\* x > y
JsGt(x, y) == JsLt(y, x)

RECURSIVE IntPow(_, _)
IntPow(b, e) == IF e = 0 THEN 1 ELSE b * IntPow(b, e - 1)

\* Math.pow(x, e) for an integer exponent e
MathPow(x0, e) ==
    LET x == ToNumber(x0)
    IN  CASE e = 0 -> Num(1)
          [] x.tag = "nan" -> NaN
          [] x.tag = "inf" -> IF e > 0 THEN x ELSE Num(0)
          [] e > 0 -> Rat(IntPow(x.num, e), IntPow(x.den, e))
          [] x.num = 0 -> Infinity(1)
          [] OTHER -> Rat(IntPow(x.den, -e), IntPow(x.num, -e))

\* array[i] with a 0-based index on a sequence: undefined outside the array
ArrayGet(arr, i) ==
    IF i >= 0 /\ i < Len(arr) THEN arr[i + 1] ELSE Undefined

(***************************************************************************)
(* State.                                                                  *)
(*   queries : the poissonBinomialPMF / poissonBinomialCDF activations,    *)
(*             one per slot, each with its arguments, locals and the stack *)
(*             of Ekj activations                                          *)
(*   heap    : the memo tables that are reachable, by reference            *)
(*   fm      : the findMax activation                                      *)
(*   bq      : the binomialPMF / binomialCDF activation                    *)
(***************************************************************************)
VARIABLES queries, heap, fm, bq

vars == <<queries, heap, fm, bq>>

\* the callers whose queries may be in progress at once
Queries == {"a", "b"}

\* the probabilities 0/Denom .. Denom/Denom
Grid == {Rat(a, Denom) : a \in 0..Denom}

\* the probability vectors of length len over the grid
Vectors(len) == [1..len -> Grid]

\* "no table": the value of lookup outside the body of a query
NoRef == 0

(***************************************************************************)
(* The memo table: [...Array(n+1)].map(_ => Array(n+1).fill(null)).        *)
(* cells maps <<k, j>> to the element lookup[k][j]; writes counts the      *)
(* assignments to each element (history, not read by the program).         *)
(***************************************************************************)
NewTable(n) ==
    [size   |-> n + 1,
     cells  |-> [c \in (0..n) \X (0..n) |-> Null],
     writes |-> [c \in (0..n) \X (0..n) |-> 0]]

\* lookup[k][j]: lookup[k] is undefined outside the rows, and undefined[j]
\* throws a TypeError; inside a row a missing element reads as undefined
TableRead(t, k, j) ==
    IF k < 0 \/ k >= t.size
    THEN [throws |-> TRUE, value |-> NoValue]
    ELSE [throws |-> FALSE,
          value  |-> IF <<k, j>> \in DOMAIN t.cells
                     THEN t.cells[<<k, j>>]
                     ELSE Undefined]

\* lookup[k][j] = value (k is a row of the table)
TableWrite(t, k, j, value) ==
    LET dom == DOMAIN t.cells \cup {<<k, j>>}
    IN  [size   |-> t.size,
         cells  |-> [c \in dom |-> IF c = <<k, j>> THEN value ELSE t.cells[c]],
         writes |-> [c \in dom |->
                        IF c = <<k, j>>
                        THEN (IF c \in DOMAIN t.writes THEN t.writes[c] ELSE 0) + 1
                        ELSE t.writes[c]]]

\* one table kept for all calls instead of a table per call
AllocRefShared(h) == 1

\* a table that has just been constructed: its reference is new
AllocRef(h) ==
    CHOOSE r \in 1..(Cardinality(DOMAIN h) + 1) :
        r \notin DOMAIN h /\ \A s \in 1..(r - 1) : s \in DOMAIN h

\* the heap with the table at ref bound to t
HeapPut(h, ref, t) ==
    [r \in DOMAIN h \cup {ref} |-> IF r = ref THEN t ELSE h[r]]

\* the heap once the references in live are the only ones held
HeapKeep(h, live) == [r \in DOMAIN h \cap live |-> h[r]]

(***************************************************************************)
(* One activation of poissonBinomialPMF or poissonBinomialCDF.  calls,     *)
(* touched and pidx are history, not read by the program: the number of    *)
(* Ekj activations so far, the indices <<k, j>> used on lookup and the     *)
(* indices used on p.                                                      *)
(***************************************************************************)
IdleQuery ==
    [pc |-> "idle", op |-> "none", k |-> 0, n |-> 0, p |-> <<>>,
     lookup |-> NoRef, i |-> 0, probability |-> NoValue,
     stack |-> <<>>, retval |-> NoValue, result |-> NoValue,
     error |-> "none", calls |-> 0, touched |-> {}, pidx |-> {}]

\* an activation of Ekj(k, j, p, lookup)
Frame(k, j) == [k |-> k, j |-> j, pc |-> "enter", acc |-> NoValue]

\* call Ekj(k, j, p, lookup) from the activation q
PushEkj(q, k, j) ==
    [q EXCEPT !.pc = "ekj",
              !.stack = Append(@, Frame(k, j)),
              !.calls = @ + 1]

\* the top activation of Ekj returns value
ReturnEkj(q, value) ==
    LET rest == SubSeq(q.stack, 1, Len(q.stack) - 1)
    IN  [q EXCEPT !.stack = rest,
                  !.retval = value,
                  !.pc = IF rest = <<>> THEN "ret" ELSE "ekj"]

\* an exception leaves every activation of the query
Throw(q, error) ==
    [q EXCEPT !.pc = "error", !.error = error, !.stack = <<>>,
              !.lookup = NoRef, !.retval = NoValue]

(***************************************************************************)
(* Ekj(k, j, p, lookup): one step of the top activation.  A result is the  *)
(* pair of the query and the heap after the step.                          *)
(***************************************************************************)
\* EkjEnter without the test of lookup[k][j] !== null: always recomputes
EkjEnterNoMemo(q, h) ==
    LET f == q.stack[Len(q.stack)]
        r == TableRead(h[q.lookup], f.k, f.j)
        d == Len(q.stack)
        qr == [q EXCEPT !.touched = @ \cup {<<f.k, f.j>>}]
    IN  IF f.k = -1
        THEN [q |-> ReturnEkj(q, Num(0)), heap |-> h]
        ELSE IF f.k = f.j + 1
        THEN [q |-> ReturnEkj(q, Num(0)), heap |-> h]
        ELSE IF f.k = 0 /\ f.j = 0
        THEN [q |-> ReturnEkj(q, Num(1)), heap |-> h]
        ELSE IF r.throws
        THEN [q |-> Throw(qr, "TypeError"), heap |-> h]
        ELSE [q |-> PushEkj(
                       [qr EXCEPT !.stack[d].pc = "first",
                                  !.stack[d].acc =
                                      JsSub(Num(1), ArrayGet(q.p, f.j - 1)),
                                  !.pidx = @ \cup {f.j - 1}],
                       f.k, f.j - 1),
              heap |-> h]

\* EkjEnter without the test of k === j+1
EkjEnterNoUpperSentinel(q, h) ==
    LET f == q.stack[Len(q.stack)]
        r == TableRead(h[q.lookup], f.k, f.j)
        d == Len(q.stack)
        qr == [q EXCEPT !.touched = @ \cup {<<f.k, f.j>>}]
    IN  IF f.k = -1
        THEN [q |-> ReturnEkj(q, Num(0)), heap |-> h]
        ELSE IF f.k = 0 /\ f.j = 0
        THEN [q |-> ReturnEkj(q, Num(1)), heap |-> h]
        ELSE IF r.throws
        THEN [q |-> Throw(qr, "TypeError"), heap |-> h]
        ELSE IF r.value # Null
        THEN [q |-> ReturnEkj(qr, r.value), heap |-> h]
        ELSE [q |-> PushEkj(
                       [qr EXCEPT !.stack[d].pc = "first",
                                  !.stack[d].acc =
                                      JsSub(Num(1), ArrayGet(q.p, f.j - 1)),
                                  !.pidx = @ \cup {f.j - 1}],
                       f.k, f.j - 1),
              heap |-> h]

\* the tests before the recurrence, and the first recursive call
EkjEnter(q, h) ==
    LET f == q.stack[Len(q.stack)]
        r == TableRead(h[q.lookup], f.k, f.j)
        d == Len(q.stack)
        qr == [q EXCEPT !.touched = @ \cup {<<f.k, f.j>>}]
    IN  IF f.k = -1
        THEN [q |-> ReturnEkj(q, Num(0)), heap |-> h]
        ELSE IF f.k = f.j + 1
        THEN [q |-> ReturnEkj(q, Num(0)), heap |-> h]
        ELSE IF f.k = 0 /\ f.j = 0
        THEN [q |-> ReturnEkj(q, Num(1)), heap |-> h]
        ELSE IF r.throws
        THEN [q |-> Throw(qr, "TypeError"), heap |-> h]
        ELSE IF r.value # Null
        THEN [q |-> ReturnEkj(qr, r.value), heap |-> h]
        ELSE [q |-> PushEkj(
                       [qr EXCEPT !.stack[d].pc = "first",
                                  !.stack[d].acc =
                                      JsSub(Num(1), ArrayGet(q.p, f.j - 1)),
                                  !.pidx = @ \cup {f.j - 1}],
                       f.k, f.j - 1),
              heap |-> h]

\* Ekj(k, j-1) has returned: (1 - p[j-1]) * Ekj(k, j-1), then Ekj(k-1, j-1)
EkjFirst(q, h) ==
    LET f == q.stack[Len(q.stack)]
        d == Len(q.stack)
    IN  [q |-> PushEkj(
                  [q EXCEPT !.stack[d].pc = "second",
                            !.stack[d].acc = JsMul(f.acc, q.retval)],
                  f.k - 1, f.j - 1),
         heap |-> h]

\* EkjSecond with p[j] in place of p[j-1]
EkjSecondOffByOne(q, h) ==
    LET f == q.stack[Len(q.stack)]
        value == JsAdd(f.acc, JsMul(ArrayGet(q.p, f.j), q.retval))
    IN  [q |-> ReturnEkj([q EXCEPT !.pidx = @ \cup {f.j},
                                   !.touched = @ \cup {<<f.k, f.j>>}],
                         value),
         heap |-> HeapPut(h, q.lookup, TableWrite(h[q.lookup], f.k, f.j, value))]

\* Ekj(k-1, j-1) has returned: the sum, lookup[k][j] = value, return value
EkjSecond(q, h) ==
    LET f == q.stack[Len(q.stack)]
        value == JsAdd(f.acc, JsMul(ArrayGet(q.p, f.j - 1), q.retval))
    IN  [q |-> ReturnEkj([q EXCEPT !.pidx = @ \cup {f.j - 1},
                                   !.touched = @ \cup {<<f.k, f.j>>}],
                         value),
         heap |-> HeapPut(h, q.lookup, TableWrite(h[q.lookup], f.k, f.j, value))]

EkjStep(q, h) ==
    LET f == q.stack[Len(q.stack)]
    IN  CASE f.pc = "enter" -> EkjEnter(q, h)
          [] f.pc = "first" -> EkjFirst(q, h)
          [] f.pc = "second" -> EkjSecond(q, h)

(***************************************************************************)
(* poissonBinomialPMF(k, n, p) and poissonBinomialCDF(k, n, p).            *)
(***************************************************************************)
\* PoissonEnter without the test of p.length !== n
PoissonEnterNoLengthTest(op, k, n, p, h) ==
    LET q0 == [IdleQuery EXCEPT !.op = op, !.k = k, !.n = n, !.p = p]
        ref == AllocRef(h)
        q1 == [q0 EXCEPT !.lookup = ref]
    IN  [q |-> IF op = "PMF"
               THEN PushEkj(q1, k, n)
               ELSE [q1 EXCEPT !.pc = "loop", !.probability = Num(0),
                               !.i = 0],
         heap |-> HeapPut(h, ref, NewTable(n))]

\* entry of either function: the test of p.length, then the table
PoissonEnter(op, k, n, p, h) ==
    LET q0 == [IdleQuery EXCEPT !.op = op, !.k = k, !.n = n, !.p = p]
        ref == AllocRef(h)
        q1 == [q0 EXCEPT !.lookup = ref]
    IN  IF Len(p) # n
        THEN [q |-> Throw(q0, "Error"), heap |-> h]
        ELSE [q |-> IF op = "PMF"
                    THEN PushEkj(q1, k, n)
                    ELSE [q1 EXCEPT !.pc = "loop", !.probability = Num(0),
                                    !.i = 0],
              heap |-> HeapPut(h, ref, NewTable(n))]

\* for (let i = 0; i <= k; i++): the test, then the call or the return
CdfLoop(q, h) ==
    IF q.i <= q.k
    THEN [q |-> PushEkj(q, q.i, q.n), heap |-> h]
    ELSE [q |-> [q EXCEPT !.pc = "done", !.result = q.probability,
                          !.lookup = NoRef],
          heap |-> h]

\* PoissonReturn with probability -= in place of probability +=
PoissonReturnSubtract(q, h) ==
    IF q.op = "PMF"
    THEN [q |-> [q EXCEPT !.pc = "done", !.result = q.retval,
                          !.lookup = NoRef],
          heap |-> h]
    ELSE [q |-> [q EXCEPT !.pc = "loop",
                          !.probability = JsSub(q.probability, q.retval),
                          !.i = q.i + 1],
          heap |-> h]

\* the outermost Ekj has returned to the query
PoissonReturn(q, h) ==
    IF q.op = "PMF"
    THEN [q |-> [q EXCEPT !.pc = "done", !.result = q.retval,
                          !.lookup = NoRef],
          heap |-> h]
    ELSE [q |-> [q EXCEPT !.pc = "loop",
                          !.probability = JsAdd(q.probability, q.retval),
                          !.i = q.i + 1],
          heap |-> h]

\* one step of a query in progress
QueryStep(q, h) ==
    CASE q.pc = "ekj" -> EkjStep(q, h)
      [] q.pc = "loop" -> CdfLoop(q, h)
      [] q.pc = "ret" -> PoissonReturn(q, h)

Running(q) == q.pc \in {"ekj", "loop", "ret"}

\* a query run from entry to its end with nothing else in progress
RECURSIVE RunQuery(_)
RunQuery(s) == IF Running(s.q) THEN RunQuery(QueryStep(s.q, s.heap)) ELSE s.q

EmptyHeap == [r \in {} |-> NewTable(0)]

poissonBinomialPMF(k, n, p) == RunQuery(PoissonEnter("PMF", k, n, p, EmptyHeap))

poissonBinomialCDF(k, n, p) == RunQuery(PoissonEnter("CDF", k, n, p, EmptyHeap))

(***************************************************************************)
(* bin(n, k), binomialPMF(k, n, p), binomialCDF(k, n, p).                  *)
(***************************************************************************)
\* the product lo * (lo+1) * ... * hi of a for loop that starts at 1
RECURSIVE Product(_, _)
Product(lo, hi) == IF lo > hi THEN 1 ELSE lo * Product(lo + 1, hi)

\* bin with the numerator's loop stopping at i < n
binShortNumerator(n, k) ==
    LET numerator == Product(n - k + 1, n - 1)
        denominator == Product(1, k)
    IN  JsDiv(Num(numerator), Num(denominator))

bin(n, k) ==
    LET numerator == Product(n - k + 1, n)
        denominator == Product(1, k)
    IN  JsDiv(Num(numerator), Num(denominator))

binomialPMF(k, n, p) ==
    JsMul(JsMul(bin(n, k), MathPow(p, k)), MathPow(JsSub(Num(1), p), n - k))

IdleBinomial ==
    [pc |-> "idle", op |-> "none", k |-> 0, n |-> 0, p |-> NoValue,
     i |-> 0, probability |-> NoValue, result |-> NoValue, binCalls |-> <<>>]

\* entry of binomialPMF (which returns at once) or of binomialCDF
BinomialEnter(op, k, n, p) ==
    LET b == [IdleBinomial EXCEPT !.op = op, !.k = k, !.n = n, !.p = p]
    IN  IF op = "PMF"
        THEN [b EXCEPT !.pc = "done", !.result = binomialPMF(k, n, p),
                       !.binCalls = <<[n |-> n, k |-> k]>>]
        ELSE [b EXCEPT !.pc = "loop", !.probability = Num(0), !.i = 0]

\* for (let i = 0; i <= k; i++) probability += binomialPMF(i, n, p)
BinomialLoop(b) ==
    IF b.i <= b.k
    THEN [b EXCEPT !.probability = JsAdd(@, binomialPMF(b.i, b.n, b.p)),
                   !.binCalls = Append(@, [n |-> b.n, k |-> b.i]),
                   !.i = b.i + 1]
    ELSE [b EXCEPT !.pc = "done", !.result = b.probability]

RECURSIVE RunBinomial(_)
RunBinomial(b) == IF b.pc = "loop" THEN RunBinomial(BinomialLoop(b)) ELSE b

binomialCDF(k, n, p) == RunBinomial(BinomialEnter("CDF", k, n, p)).result

(***************************************************************************)
(* findMax(n, p, pmf).  pmf is binomialPMF, poissonBinomialPMF, or any     *)
(* function of k given by the sequence vals of its values at 0..n.         *)
(***************************************************************************)
IdleFindMax ==
    [pc |-> "idle", n |-> 0, p |-> NoValue, pmf |-> "none", vals |-> <<>>,
     i |-> 0, max |-> 0, maxP |-> NoValue, evals |-> <<>>, error |-> "none"]

\* pmf(i, n, p): the function's outcome, a value or an exception
PmfCall(pmf, vals, i, n, p) ==
    CASE pmf = "binomialPMF" ->
            [throws |-> FALSE, value |-> binomialPMF(i, n, p)]
      [] pmf = "poissonBinomialPMF" ->
            LET q == poissonBinomialPMF(i, n, p)
            IN  [throws |-> q.pc = "error", value |-> q.result]
      [] pmf = "table" ->
            [throws |-> FALSE, value |-> vals[i + 1]]

FindMaxEnter(n, p, pmf, vals) ==
    [IdleFindMax EXCEPT !.pc = "loop", !.n = n, !.p = p, !.pmf = pmf,
                        !.vals = vals, !.i = 0, !.max = -1, !.maxP = Num(0)]

\* FindMaxLoop with probability >= maxP in place of probability > maxP
FindMaxLoopUpdateOnEqual(f) ==
    LET r == PmfCall(f.pmf, f.vals, f.i, f.n, f.p)
        probability == r.value
        g == [f EXCEPT !.evals = Append(@, f.i)]
    IN  IF ~(f.i <= f.n)
        THEN [f EXCEPT !.pc = "done"]
        ELSE IF r.throws
        THEN [g EXCEPT !.pc = "error", !.error = "Error"]
        ELSE IF ~JsLt(probability, f.maxP)
        THEN [g EXCEPT !.max = f.i, !.maxP = probability, !.i = f.i + 1]
        ELSE [g EXCEPT !.pc = "done"]

\* FindMaxLoop that stops as soon as probability > maxP fails
FindMaxLoopBreakOnEqual(f) ==
    LET r == PmfCall(f.pmf, f.vals, f.i, f.n, f.p)
        probability == r.value
        g == [f EXCEPT !.evals = Append(@, f.i)]
    IN  IF ~(f.i <= f.n)
        THEN [f EXCEPT !.pc = "done"]
        ELSE IF r.throws
        THEN [g EXCEPT !.pc = "error", !.error = "Error"]
        ELSE IF JsGt(probability, f.maxP)
        THEN [g EXCEPT !.max = f.i, !.maxP = probability, !.i = f.i + 1]
        ELSE [g EXCEPT !.pc = "done"]

\* one pass of for (let i = 0; i <= n; i++), or the return after the loop
FindMaxLoop(f) ==
    LET r == PmfCall(f.pmf, f.vals, f.i, f.n, f.p)
        probability == r.value
        g == [f EXCEPT !.evals = Append(@, f.i)]
    IN  IF ~(f.i <= f.n)
        THEN [f EXCEPT !.pc = "done"]
        ELSE IF r.throws
        THEN [g EXCEPT !.pc = "error", !.error = "Error"]
        ELSE IF JsGt(probability, f.maxP)
        THEN [g EXCEPT !.max = f.i, !.maxP = probability, !.i = f.i + 1]
        ELSE IF JsLt(probability, f.maxP)
        THEN [g EXCEPT !.pc = "done"]
        ELSE [g EXCEPT !.i = f.i + 1]

RECURSIVE RunFindMax(_)
RunFindMax(f) == IF f.pc = "loop" THEN RunFindMax(FindMaxLoop(f)) ELSE f

findMax(n, p, pmf, vals) == RunFindMax(FindMaxEnter(n, p, pmf, vals))

(***************************************************************************)
(* Initial state: nothing has been called.                                 *)
(***************************************************************************)
Init ==
    /\ queries = [c \in Queries |-> IdleQuery]
    /\ heap = EmptyHeap
    /\ fm = IdleFindMax
    /\ bq = IdleBinomial

\* the tables some query still holds
LiveRefs(qs) == {qs[c].lookup : c \in Queries} \ {NoRef}

\* the step s of the query of caller c; a table nobody holds is gone
Commit(c, s) ==
    LET qs == [queries EXCEPT ![c] = s.q]
    IN  /\ queries' = qs
        /\ heap' = HeapKeep(s.heap, LiveRefs(qs))
        /\ UNCHANGED <<fm, bq>>

(***************************************************************************)
(* Actions of the Poisson-binomial queries.                                *)
(***************************************************************************)
\* caller c calls poissonBinomialPMF (op = "PMF") or poissonBinomialCDF with
\* some arguments of args
Call(c, args) ==
    /\ queries[c].pc = "idle"
    /\ \E a \in args : Commit(c, PoissonEnter(a.op, a.k, a.n, a.p, heap))

\* one step of the top Ekj activation of c's query
StepEkj(c) ==
    /\ queries[c].pc = "ekj"
    /\ Commit(c, EkjStep(queries[c], heap))

\* the loop of poissonBinomialCDF
StepLoop(c) ==
    /\ queries[c].pc = "loop"
    /\ Commit(c, CdfLoop(queries[c], heap))

\* the outermost Ekj returns into poissonBinomialPMF / poissonBinomialCDF
StepReturn(c) ==
    /\ queries[c].pc = "ret"
    /\ Commit(c, PoissonReturn(queries[c], heap))

\* the caller has the result (or the exception); it may call again
Consume(c) ==
    /\ queries[c].pc \in {"done", "error"}
    /\ Commit(c, [q |-> IdleQuery, heap |-> heap])

\* the arguments a caller passes: any k from -2 to n+2 and any vector of
\* length 0..maxN, so that the length may differ from n
Args(maxN, grid) ==
    {a \in [op : {"PMF", "CDF"}, k : -2..(maxN + 2), n : 0..maxN,
            p : UNION {[1..len -> grid] : len \in 0..maxN}] :
        a.k <= a.n + 2}

\* one caller: queries run one after the other
Next ==
    \/ Call("a", Args(MaxN, Grid))
    \/ StepEkj("a")
    \/ StepLoop("a")
    \/ StepReturn("a")
    \/ Consume("a")

Spec == Init /\ [][Next]_vars

\* the vector caller c passes with n trials: caller "a" passes 1/Denom n
\* times, every other caller the ramp 1/n, 2/n, ..., n/n
ConcVector(c, n) ==
    IF c = "a" THEN [i \in 1..n |-> Rat(1, Denom)] ELSE [i \in 1..n |-> Rat(i, n)]

\* the arguments of caller c when queries interleave: k in the operational
\* range -1..n+1, and the caller's vector for n, or the empty vector
ConcArgs(c) ==
    {a \in [op : {"PMF", "CDF"}, k : -1..(MaxNConc + 1), n : 0..MaxNConc,
            p : {ConcVector(c, n) : n \in 0..MaxNConc}] :
        a.k <= a.n + 1 /\ Len(a.p) \in {0, a.n}}

\* several callers: the steps of their queries interleave in any order
NextConcurrent ==
    \E c \in Queries :
        \/ Call(c, ConcArgs(c))
        \/ StepEkj(c)
        \/ StepLoop(c)
        \/ StepReturn(c)
        \/ Consume(c)

SpecConcurrent == Init /\ [][NextConcurrent]_vars

(***************************************************************************)
(* Actions of binomialPMF / binomialCDF.                                   *)
(***************************************************************************)
\* binomialPMF (op = "PMF") or binomialCDF is called: no argument is validated
BinomialCall ==
    /\ bq.pc = "idle"
    /\ \E op \in {"PMF", "CDF"}, k \in -2..(MaxNBin + 2), n \in -1..MaxNBin,
          p \in Grid :
            bq' = BinomialEnter(op, k, n, p)
    /\ UNCHANGED <<queries, heap, fm>>

\* one pass of the loop of binomialCDF, or its return
BinomialStep ==
    /\ bq.pc = "loop"
    /\ bq' = BinomialLoop(bq)
    /\ UNCHANGED <<queries, heap, fm>>

BinomialConsume ==
    /\ bq.pc = "done"
    /\ bq' = IdleBinomial
    /\ UNCHANGED <<queries, heap, fm>>

NextBinomial == BinomialCall \/ BinomialStep \/ BinomialConsume

SpecBinomial == Init /\ [][NextBinomial]_vars

(***************************************************************************)
(* Actions of findMax.                                                     *)
(***************************************************************************)
\* the values an arbitrary pmf may return
TableValues == {Rat(a, CoarseDenom) : a \in -1..CoarseDenom}

\* the vectors of length len handed to findMax
CoarseVectors(len) == [1..len -> {Rat(a, CoarseDenom) : a \in 0..CoarseDenom}]

\* findMax(n, p, binomialPMF) with a scalar p
FindMaxBinomial ==
    /\ fm.pc = "idle"
    /\ \E n \in -1..MaxNFind, p \in Grid :
            fm' = FindMaxEnter(n, p, "binomialPMF", <<>>)
    /\ UNCHANGED <<queries, heap, bq>>

\* findMax(n, p, poissonBinomialPMF) with a vector p of any length
FindMaxPoisson ==
    /\ fm.pc = "idle"
    /\ \E n \in -1..MaxNFind,
          p \in UNION {CoarseVectors(len) : len \in 0..MaxNFind} :
            fm' = FindMaxEnter(n, p, "poissonBinomialPMF", <<>>)
    /\ UNCHANGED <<queries, heap, bq>>

\* findMax(n, p, pmf) with a pmf that returns vals[k+1] for k in 0..n
FindMaxTable ==
    /\ fm.pc = "idle"
    /\ \E n \in -1..MaxNFind :
         \E vals \in [1..(n + 1) -> TableValues] :
            fm' = FindMaxEnter(n, NoValue, "table", vals)
    /\ UNCHANGED <<queries, heap, bq>>

\* one pass of the loop of findMax, or its return
FindMaxStep ==
    /\ fm.pc = "loop"
    /\ fm' = FindMaxLoop(fm)
    /\ UNCHANGED <<queries, heap, bq>>

FindMaxConsume ==
    /\ fm.pc \in {"done", "error"}
    /\ fm' = IdleFindMax
    /\ UNCHANGED <<queries, heap, bq>>

NextFindMax ==
    \/ FindMaxBinomial
    \/ FindMaxPoisson
    \/ FindMaxTable
    \/ FindMaxStep
    \/ FindMaxConsume

SpecFindMax == Init /\ [][NextFindMax]_vars

(***************************************************************************)
(* Properties.                                                             *)
(***************************************************************************)
\* v is a probability: a number in [0, 1]
IsProbability(v) == IsNum(v) /\ 0 <= v.num /\ v.num <= v.den

\* the query was called with a vector of the right length and k in -1..n+1
InRange(q) == Len(q.p) = q.n /\ -1 <= q.k /\ q.k <= q.n + 1

\* C1: a call of poissonBinomialPMF or poissonBinomialCDF with length(p) # n
\* ends at once in the error of the length test: it returns no probability,
\* no table has been constructed, no cell written and no Ekj activation made;
\* a call with length(p) = n never ends in that error.
C1_LengthMismatchThrows ==
    \A c \in Queries :
        LET q == queries[c]
        IN  q.pc # "idle" =>
              /\ Len(q.p) # q.n =>
                    /\ q.pc = "error"
                    /\ q.error = "Error"
                    /\ q.result = NoValue
                    /\ q.lookup = NoRef
                    /\ q.stack = <<>>
                    /\ q.calls = 0
                    /\ q.touched = {}
                    /\ DOMAIN heap = {}
              /\ Len(q.p) = q.n => q.error # "Error"

\* poissonBinomialPMF(1, 3, p) with a vector of length 2 has thrown
C1_Witness ==
    \E c \in Queries :
        /\ queries[c].pc = "error"
        /\ queries[c].error = "Error"
        /\ queries[c].op = "PMF"
        /\ queries[c].k = 1
        /\ queries[c].n = 3
        /\ Len(queries[c].p) = 2

\* every element of every memo table is uncomputed and never assigned, or
\* assigned exactly once and a probability
C7_CellsAssignedOnce ==
    \A r \in DOMAIN heap :
        \A cell \in DOMAIN heap[r].cells :
            /\ heap[r].writes[cell] <= 1
            /\ heap[r].writes[cell] = 0 <=> heap[r].cells[cell] = Null
            /\ heap[r].writes[cell] = 1 => IsProbability(heap[r].cells[cell])

\* a step leaves every element that holds a value as it is
C7_NoRewrite ==
    \A r \in DOMAIN heap \cap DOMAIN heap' :
        \A cell \in DOMAIN heap[r].cells :
            heap[r].cells[cell] # Null =>
                /\ cell \in DOMAIN heap'[r].cells
                /\ heap'[r].cells[cell] = heap[r].cells[cell]

\* C7: the memo table of a query is write-once: each element lookup[k][j] is
\* assigned at most once, an element that holds a value is never changed nor
\* reset to uncomputed, and the value it holds is a probability in [0, 1].
C7_MemoWriteOnce == [] C7_CellsAssignedOnce /\ [][C7_NoRewrite]_vars

\* poissonBinomialCDF is at a later Ekj(i, n) on a table whose element
\* lookup[0][1] was assigned during Ekj(0, n), and is about to read it again
C7_Witness ==
    \E c \in Queries :
        LET q == queries[c]
        IN  /\ q.op = "CDF"
            /\ q.pc = "ekj"
            /\ q.i >= 1
            /\ q.stack[Len(q.stack)] = Frame(0, 1)
            /\ heap[q.lookup].writes[<<0, 1>>] = 1

\* C8: in a query with length(p) = n and -1 <= k <= n+1, every activation
\* Ekj(k', j') has 0 <= j' <= n and -1 <= k' <= j'+1, a recursive activation
\* has j' one less than its caller, every index used on lookup is within
\* [0,n] x [0,n], every index j'-1 used on p has 1 <= j' <= n, and no
\* TypeError, undefined or NaN comes out of the recursion.
C8_RecursionInsideTable ==
    \A c \in Queries :
        LET q == queries[c]
        IN  q.pc # "idle" /\ InRange(q) =>
              /\ \A d \in 1..Len(q.stack) :
                    /\ 0 <= q.stack[d].j /\ q.stack[d].j <= q.n
                    /\ -1 <= q.stack[d].k /\ q.stack[d].k <= q.stack[d].j + 1
                    /\ d > 1 => q.stack[d].j = q.stack[d - 1].j - 1
              /\ \A t \in q.touched :
                    /\ 0 <= t[1] /\ t[1] <= q.n
                    /\ 0 <= t[2] /\ t[2] <= q.n
              /\ \A x \in q.pidx : 0 <= x /\ x <= q.n - 1
              /\ q.error = "none"
              /\ q.retval = NoValue \/ IsNum(q.retval)

\* the recursion of a query with n = MaxN has reached j = 0 with every
\* activation from j = n down on the stack, and the table has been used
C8_Witness ==
    \E c \in Queries :
        LET q == queries[c]
        IN  /\ InRange(q)
            /\ q.n = MaxN
            /\ Len(q.stack) = q.n + 1
            /\ q.stack[Len(q.stack)].j = 0
            /\ q.touched # {}
            /\ q.pidx # {}

\* what the call of q returns, or how it ends, when nothing else is in
\* progress
Alone(q) ==
    IF q.op = "PMF"
    THEN poissonBinomialPMF(q.k, q.n, q.p)
    ELSE poissonBinomialCDF(q.k, q.n, q.p)

\* C6: with the steps of several queries interleaved in any order, each query
\* in progress holds a table of its own that no other query holds, the tables
\* that exist are exactly those of the queries in progress (none outlives its
\* query or is handed to a later call), every element written in a query's
\* table is one that query used, and each query ends with exactly the result
\* (or the error) of the same call run alone.
C6_QueryIsolation ==
    /\ \A c1, c2 \in Queries :
          c1 # c2 /\ queries[c1].lookup # NoRef =>
              queries[c1].lookup # queries[c2].lookup
    /\ DOMAIN heap = LiveRefs(queries)
    /\ \A c \in Queries :
          LET q == queries[c]
          IN  /\ q.lookup # NoRef <=> Running(q)
              /\ Running(q) =>
                    /\ heap[q.lookup].size = q.n + 1
                    /\ \A cell \in DOMAIN heap[q.lookup].cells :
                          heap[q.lookup].cells[cell] # Null => cell \in q.touched
              /\ q.pc \in {"done", "error"} =>
                    LET alone == Alone(q)
                    IN  /\ q.pc = alone.pc
                        /\ q.result = alone.result
                        /\ q.error = alone.error

\* two queries with different vectors are both inside Ekj, each with elements
\* already written in its table
C6_Witness ==
    \E c1, c2 \in Queries :
        /\ c1 # c2
        /\ queries[c1].pc = "ekj"
        /\ queries[c2].pc = "ekj"
        /\ queries[c1].p # queries[c2].p
        /\ queries[c1].n = queries[c2].n
        /\ \E cell \in DOMAIN heap[queries[c1].lookup].cells :
              heap[queries[c1].lookup].cells[cell] # Null
        /\ \E cell \in DOMAIN heap[queries[c2].lookup].cells :
              heap[queries[c2].lookup].cells[cell] # Null

\* the sum of poissonBinomialPMF(i, n, p) over i in 0..upto other than skip
RECURSIVE PmfSumExcept(_, _, _, _)
PmfSumExcept(n, p, upto, skip) ==
    IF upto < 0
    THEN Num(0)
    ELSE JsAdd(PmfSumExcept(n, p, upto - 1, skip),
               IF upto = skip
               THEN Num(0)
               ELSE poissonBinomialPMF(upto, n, p).result)

\* C2: normalization: for n >= 1 and a vector p of length n over [0, 1], the
\* values of poissonBinomialPMF(k, n, p) for k = 0..n add up to 1 (the value
\* the query returned for its k plus the values of the other k).
C2_Normalization ==
    \A c \in Queries :
        LET q == queries[c]
        IN  q.pc = "done" /\ q.op = "PMF" /\ q.n >= 1 /\ q.k \in 0..q.n =>
              JsAdd(q.result, PmfSumExcept(q.n, q.p, q.n, q.k)) = Num(1)

\* poissonBinomialPMF(1, MaxN, p) has returned a value strictly between 0 and
\* 1 for a vector whose entries are not all the same
C2_Witness ==
    \E c \in Queries :
        LET q == queries[c]
        IN  /\ q.pc = "done" /\ q.op = "PMF" /\ q.n = MaxN /\ q.k = 1
            /\ q.p[1] # q.p[2]
            /\ JsLt(Num(0), q.result) /\ JsLt(q.result, Num(1))

\* C3: when every entry of p is the same scalar q0 and 0 <= k <= n,
\* poissonBinomialPMF(k, n, p) returns the value of binomialPMF(k, n, q0).
C3_BinomialEquivalence ==
    \A c \in Queries :
        LET q == queries[c]
        IN  q.pc = "done" /\ q.op = "PMF" /\ q.k \in 0..q.n =>
              \A q0 \in Grid :
                  (\A i \in 1..q.n : q.p[i] = q0) =>
                      q.result = binomialPMF(q.k, q.n, q0)

\* poissonBinomialPMF(1, 2, <<1/2, 1/2>>) has returned 1/2
C3_Witness ==
    \E c \in Queries :
        LET q == queries[c]
        IN  /\ q.pc = "done" /\ q.op = "PMF" /\ q.n = 2 /\ q.k = 1
            /\ q.p = <<Rat(1, 2), Rat(1, 2)>>
            /\ q.result = Rat(1, 2)
            /\ binomialPMF(1, 2, Rat(1, 2)) = Rat(1, 2)

\* C5: for a vector p of length n over [0, 1], poissonBinomialCDF(k, n, p) is
\* non-decreasing in k over -1..n+1: the value the query returned for its k is
\* at least the value for every smaller k and at most that for every larger k.
C5_CdfMonotone ==
    \A c \in Queries :
        LET q == queries[c]
        IN  q.pc = "done" /\ q.op = "CDF" /\ InRange(q) =>
              /\ IsNum(q.result)
              /\ \A k1 \in -1..q.k :
                    LET r == poissonBinomialCDF(k1, q.n, q.p).result
                    IN  IsNum(r) /\ ~JsGt(r, q.result)
              /\ \A k2 \in q.k..(q.n + 1) :
                    LET r == poissonBinomialCDF(k2, q.n, q.p).result
                    IN  IsNum(r) /\ ~JsLt(r, q.result)

\* poissonBinomialCDF(1, MaxN, p) has returned a value strictly between
\* poissonBinomialCDF(0, MaxN, p) and poissonBinomialCDF(2, MaxN, p)
C5_Witness ==
    \E c \in Queries :
        LET q == queries[c]
        IN  /\ q.pc = "done" /\ q.op = "CDF" /\ q.n = MaxN /\ q.k = 1
            /\ Len(q.p) = q.n
            /\ JsLt(poissonBinomialCDF(0, q.n, q.p).result, q.result)
            /\ JsLt(q.result, poissonBinomialCDF(2, q.n, q.p).result)

\* findMax was called with a valid parameter: n >= 0 and a scalar in [0, 1]
\* with binomialPMF, or a vector of length n over [0, 1] with
\* poissonBinomialPMF
ValidFindMax(f) ==
    /\ f.n >= 0
    /\ \/ f.pmf = "binomialPMF" /\ IsProbability(f.p)
       \/ f.pmf = "poissonBinomialPMF" /\ Len(f.p) = f.n

\* the value of the pmf findMax was given, at k
PmfValue(f, k) == PmfCall(f.pmf, f.vals, k, f.n, f.p).value

\* C4: for n >= 0 and a valid parameter, findMax(n, p, pmf) with binomialPMF
\* or poissonBinomialPMF returns {max, p} with 0 <= max <= n, p = pmf(max, n,
\* p) and pmf(max, n, p) >= pmf(k, n, p) for every k in 0..n; max is never -1;
\* findMax(4, 1/2, binomialPMF) returns max = 2 and p = 3/8.
C4_FindMaxIsMode ==
    fm.pc = "done" /\ ValidFindMax(fm) =>
        /\ 0 <= fm.max /\ fm.max <= fm.n
        /\ fm.maxP = PmfValue(fm, fm.max)
        /\ \A k \in 0..fm.n :
              /\ IsNum(PmfValue(fm, k))
              /\ ~JsGt(PmfValue(fm, k), fm.maxP)
        /\ fm.pmf = "binomialPMF" /\ fm.n = 4 /\ fm.p = Rat(1, 2) =>
              fm.max = 2 /\ fm.maxP = Rat(3, 8)

\* findMax has returned for poissonBinomialPMF with n = MaxNFind and a vector
\* whose mode is neither 0 nor n, after stopping before k = n
C4_Witness ==
    /\ fm.pc = "done"
    /\ fm.pmf = "poissonBinomialPMF"
    /\ fm.n = MaxNFind
    /\ Len(fm.p) = fm.n
    /\ fm.p[1] # fm.p[2]
    /\ 0 < fm.max /\ fm.max < fm.n
    /\ Len(fm.evals) <= fm.n

\* findMax(4, 1/2, binomialPMF) has returned
C4_ExampleWitness ==
    fm.pc = "done" /\ fm.pmf = "binomialPMF" /\ fm.n = 4 /\ fm.p = Rat(1, 2)

\* the k for which findMax has called the pmf so far
Evaluated(f) == {f.evals[x] : x \in 1..Len(f.evals)}

\* the largest of a non-empty set of numbers
Largest(values) == CHOOSE v \in values : \A w \in values : ~JsLt(v, w)

\* the values of the pmf findMax was given, at 0..n
PmfValues(f) == [k \in 0..f.n |-> PmfValue(f, k)]

\* the best value before k: the largest of 0 and the values below k
BestBefore(values, k) ==
    Largest({Num(0)} \cup {values[x] : x \in 0..(k - 1)})

\* the k whose value is strictly below the best value before it
Drops(values) ==
    {k \in DOMAIN values : JsLt(values[k], BestBefore(values, k))}

\* the pmf findMax was given returns a value for every k
Total(f) == f.pmf = "poissonBinomialPMF" => Len(f.p) = f.n

\* C10: for any pmf, findMax calls pmf(k, n, p) for k = 0, 1, 2, ... in
\* increasing order and for no k after the first k whose value is strictly
\* below the running best; it returns max = the smallest evaluated k whose
\* value is the largest value evaluated, and p = that value; if n < 0 or no
\* evaluated value exceeds 0 it returns max = -1 and p = 0.
C10_FindMaxEarlyExit ==
    fm.pc \in {"loop", "done"} /\ Total(fm) =>
        LET values == PmfValues(fm)
            drops == Drops(values)
            seen == {values[k] : k \in Evaluated(fm)}
        IN  /\ \A x \in 1..Len(fm.evals) : fm.evals[x] = x - 1
            /\ \A d \in drops : \A k \in Evaluated(fm) : k <= d
            /\ fm.pc = "done" =>
                  /\ Evaluated(fm) = {k \in 0..fm.n : \A d \in drops : k <= d}
                  /\ IF fm.n < 0 \/ {v \in seen : JsGt(v, Num(0))} = {}
                     THEN fm.max = -1 /\ fm.maxP = Num(0)
                     ELSE /\ fm.maxP = Largest(seen)
                          /\ fm.max \in Evaluated(fm)
                          /\ values[fm.max] = fm.maxP
                          /\ \A k \in Evaluated(fm) :
                                values[k] = fm.maxP => fm.max <= k

\* findMax has returned for a pmf that is not unimodal: it stopped at a value
\* below the best before a later, larger value, and an equal value after the
\* best did not replace it
C10_Witness ==
    /\ fm.pc = "done"
    /\ fm.pmf = "table"
    /\ fm.n = MaxNFind
    /\ Len(fm.evals) = 4
    /\ fm.max = 1
    /\ fm.vals[3] = fm.vals[2]
    /\ JsLt(fm.vals[4], fm.vals[3])
    /\ JsGt(fm.vals[5], fm.vals[2])

\* findMax has returned max = -1: every value it evaluated was 0 or less
C10_WitnessNoMaximum ==
    /\ fm.pc = "done"
    /\ fm.pmf = "table"
    /\ fm.n >= 1
    /\ fm.max = -1
    /\ Len(fm.evals) = 2

\* C9: every call bin(n, k) made by binomialPMF(k, n, p) or by the loop of
\* binomialCDF(k, n, p) has 0 <= k <= n, whatever integers k and n the caller
\* passed.
C9_BinCalledInDomain ==
    \A x \in 1..Len(bq.binCalls) :
        0 <= bq.binCalls[x].k /\ bq.binCalls[x].k <= bq.binCalls[x].n

\* binomialCDF(n + 1, n, 1) has returned NaN after calling bin(n, n + 1)
C9_OutOfDomainCall ==
    /\ bq.pc = "done"
    /\ bq.op = "CDF"
    /\ bq.n >= 0
    /\ bq.k = bq.n + 1
    /\ bq.p = Num(1)
    /\ bq.binCalls[Len(bq.binCalls)] = [n |-> bq.n, k |-> bq.n + 1]
    /\ bq.result = NaN

=============================================================================
